---- MODULE Spec2Model ----
(***************************************************************************)
(* Runtime-support layer of the bare-metal ATSAM3X8E port                  *)
(* (src/src/support.c): the bump allocator behind posix_memalign, the      *)
(* byte-level memory intrinsics with their ARM EABI entry points, and the  *)
(* xorshift32 generator behind arc4random_buf.                             *)
(*                                                                         *)
(* Four specifications share the variables of this module:                 *)
(*   SpecAlloc  sequential calls of posix_memalign and free                *)
(*   SpecIrq    posix_memalign in the main context, executed statement by  *)
(*              statement, preempted by an interrupt handler that also     *)
(*              calls posix_memalign                                       *)
(*   SpecMem    memset / memcpy / memmove and the __aeabi_* entry points,  *)
(*              executed byte by byte on a small memory                    *)
(*   SpecRng    arc4random_buf, executed byte by byte                      *)
(* In each specification the variables of the others keep their initial    *)
(* values.                                                                 *)
(***************************************************************************)
EXTENDS Integers, Sequences, FiniteSets

VARIABLES
  g_heap,    \* support.c:48  static uintptr_t g_heap
  memptr,    \* [context -> contents of the caller's output slot *memptr]
  ret,       \* [context -> status returned by the context's last call]
  req,       \* arguments of the last allocator call
  allocs,    \* successful allocations, in order of completion
  ncalls,    \* number of allocator calls made
  op,        \* the allocator entry point called last
  primask,   \* Cortex-M PRIMASK: 1 = interrupts masked (cpsid i)
  ipc,       \* main context's position inside posix_memalign (SpecIrq)
  frame,     \* main context's parameters and locals of posix_memalign
  nirq,      \* number of interrupt-handler calls so far
  hit,       \* a handler call ran while a main call was between its first
             \* read of g_heap and its write of g_heap
  allCrit,   \* every main call so far was wrapped in a critical section
  mem,       \* the bytes of a small RAM, indexed from 0
  mem0,      \* the RAM as it was when the current memory call was entered
  mcall,     \* entry point, arguments and locals of the current memory call
  mpc,       \* position inside the current memory call
  nmem,      \* number of memory calls made
  g_rng,     \* support.c:175  static uint32_t g_rng, as the set of its 1 bits
  rcall,     \* locals of the current arc4random_buf call
  rpc,       \* position inside arc4random_buf
  lens,      \* requested lengths of the arc4random_buf calls, in order
  bufs       \* bytes written by each arc4random_buf call, in order

allocVars == <<g_heap, memptr, ret, req, allocs, ncalls, op>>
irqVars   == <<primask, ipc, frame, nirq, hit, allCrit>>
memVars   == <<mem, mem0, mcall, mpc, nmem>>
rngVars   == <<g_rng, rcall, rpc, lens, bufs>>
vars      == <<allocVars, irqVars, memVars, rngVars>>

(***************************************************************************)
(* Bounds of the model.                                                    *)
(***************************************************************************)
\* Width of uintptr_t / size_t in the model (32 on the target); all address
\* arithmetic is taken modulo 2^WordBits.
WordBits == 8
\* &_end and &_estack: linker-provided, opaque to support.c.  As on the
\* target (RAM at 0x2007_0000..0x2008_8000) both lie in the low part of the
\* address space.
HeapBase == 40
StackTop == 64
\* Number of allocator calls in one behaviour of SpecAlloc.
MaxCalls == 3
\* Calls per context in SpecIrq.
MaxMainCalls == 2
MaxIrqCalls == 1
\* Bytes of RAM and number of calls in SpecMem.
MemSize == 4
MaxMemCalls == 1
\* Largest length requested and number of calls in SpecRng.
MaxFill == 6
MaxRngCalls == 2

Mod == 2 ^ WordBits

\* sizeof(void*)
PtrSize == 4
EINVAL == 22
ENOMEM == 12

Contexts == {"main", "irq"}

(***************************************************************************)
(* Bump allocator, support.c:45-78                                         *)
(***************************************************************************)

\* x & y on unsigned words
RECURSIVE BitAnd(_, _)
BitAnd(x, y) ==
  IF x = 0 \/ y = 0 THEN 0
  ELSE (x % 2) * (y % 2) + 2 * BitAnd(x \div 2, y \div 2)

\* ~x on a word of WordBits bits
BitNot(x) == (Mod - 1) - x

\* heap_init_once(): the value of g_heap after it ran on g
HeapInitOnce(g) == IF g = 0 THEN HeapBase ELSE g

\* align_up with a slip: rounds down, the a - 1 is not added
AlignDown(p, a) == BitAnd(p, BitNot((a + Mod - 1) % Mod))

\* align_up with a slip: adds a instead of a - 1
AlignUpPlusA(p, a) == BitAnd((p + a) % Mod, BitNot((a + Mod - 1) % Mod))

\* align_up(p, a) == (p + (a - 1)) & ~(a - 1), in unsigned arithmetic
AlignUp(p, a) ==
  BitAnd((p + ((a + Mod - 1) % Mod)) % Mod, BitNot((a + Mod - 1) % Mod))

\* if (alignment < sizeof(void*)) alignment = sizeof(void*);
Coerce(alignment) == IF alignment < PtrSize THEN PtrSize ELSE alignment

\* the power-of-two test with a slip: it never rejects
NotPowerOfTwoNever(a) == FALSE

\* (alignment & (alignment - 1)) != 0
NotPowerOfTwoBits(a) == BitAnd(a, (a + Mod - 1) % Mod) # 0

\* uintptr_t newp = p + (uintptr_t)size;
NewP(p, size) == (p + size) % Mod

\* newp >= (uintptr_t)&_estack
AtOrBeyondStack(newp) == newp >= StackTop

\* The whole of posix_memalign on cursor g and output-slot contents slot:
\* the cursor, the slot and the status it leaves, and the address p it
\* computed.
PosixMemalign(g, slot, null, alignment, size) ==
  LET h    == HeapInitOnce(g)
      a    == Coerce(alignment)
      p    == AlignUp(h, a)
      newp == NewP(p, size)
  IN  IF null THEN [g_heap |-> h, slot |-> slot, ret |-> EINVAL, p |-> 0]
      ELSE IF NotPowerOfTwoBits(a)
        THEN [g_heap |-> h, slot |-> slot, ret |-> EINVAL, p |-> 0]
      ELSE IF AtOrBeyondStack(newp)
        THEN [g_heap |-> h, slot |-> 0, ret |-> ENOMEM, p |-> p]
      ELSE [g_heap |-> newp, slot |-> p, ret |-> 0, p |-> p]

\* Arguments the callers pass.  Alignments below sizeof(void*), powers of
\* two and others; sizes that fit, that exhaust the heap, and that make
\* p + size exceed the word.
Alignments == {1, 3, 4, 6, 8, 32}
Sizes == {0, 4, 12, Mod - 8}

Allocation(ctx, p, size, alignment) ==
  [ctx |-> ctx, p |-> p, size |-> size, alignment |-> alignment]

\* One complete call of posix_memalign from context ctx: its effect on the
\* cursor, on the caller's output slot and on the returned status.
Call(ctx, null, alignment, size) ==
  LET r == PosixMemalign(g_heap, memptr[ctx], null, alignment, size)
  IN  /\ g_heap' = r.g_heap
      /\ memptr' = [memptr EXCEPT ![ctx] = r.slot]
      /\ ret' = [ret EXCEPT ![ctx] = r.ret]
      /\ allocs' = IF r.ret = 0
                     THEN Append(allocs,
                                 Allocation(ctx, r.p, size, Coerce(alignment)))
                     ELSE allocs

Memalign ==
  /\ ncalls < MaxCalls
  /\ \E null \in BOOLEAN, alignment \in Alignments, size \in Sizes :
       /\ Call("main", null, alignment, size)
       /\ req' = [null |-> null, alignment |-> alignment, size |-> size,
                  ptr |-> 0]
  /\ ncalls' = ncalls + 1
  /\ op' = "posix_memalign"
  /\ UNCHANGED <<irqVars, memVars, rngVars>>

\* void free(void *ptr) { (void)ptr; }
Free ==
  /\ ncalls < MaxCalls
  /\ \E ptr \in {0} \cup {allocs[i].p : i \in 1..Len(allocs)} :
       req' = [null |-> FALSE, alignment |-> 0, size |-> 0, ptr |-> ptr]
  /\ ncalls' = ncalls + 1
  /\ op' = "free"
  /\ UNCHANGED <<g_heap, memptr, ret, allocs>>
  /\ UNCHANGED <<irqVars, memVars, rngVars>>

InitAlloc ==
  /\ g_heap = 0
  /\ memptr = [c \in Contexts |-> 0]
  /\ ret = [c \in Contexts |-> -1]
  /\ req = [null |-> FALSE, alignment |-> 0, size |-> 0, ptr |-> 0]
  /\ allocs = <<>>
  /\ ncalls = 0
  /\ op = "none"

NextAlloc == Memalign \/ Free

(***************************************************************************)
(* posix_memalign under interrupt preemption, support.c:9-13 and 58-76.    *)
(* The main context executes the function statement by statement; between  *)
(* two statements an interrupt handler runs to completion whenever         *)
(* PRIMASK is clear.  A main call is either wrapped in                     *)
(* bm_disable_irq() ... bm_enable_irq() or not; the handler's call is.     *)
(***************************************************************************)

NoFrame == [crit |-> FALSE, null |-> FALSE, alignment |-> 0, size |-> 0,
            p |-> 0, newp |-> 0, reg |-> 0]

InitIrq ==
  /\ primask = 0
  /\ ipc = "idle"
  /\ frame = NoFrame
  /\ nirq = 0
  /\ hit = FALSE
  /\ allCrit = TRUE

\* Arguments passed in SpecIrq.
IrqAlignments == {4, 6, 8}
IrqSizes == {0, 4, Mod - 8}
MainArgs ==
  {[null |-> TRUE, alignment |-> 4, size |-> 4]}
    \cup {[null |-> FALSE, alignment |-> a, size |-> n] :
            a \in IrqAlignments, n \in IrqSizes}

\* where the main context continues once posix_memalign has returned
AfterReturn == IF frame.crit THEN "cpsie" ELSE "idle"

\* The main context calls posix_memalign, inside a critical section or not.
MainEnter ==
  /\ ipc = "idle"
  /\ ncalls - nirq < MaxMainCalls
  /\ \E crit \in BOOLEAN, args \in MainArgs :
       /\ frame' = [NoFrame EXCEPT !.crit = crit, !.null = args.null,
                                   !.alignment = args.alignment,
                                   !.size = args.size]
       /\ allCrit' = (allCrit /\ crit)
       /\ ipc' = IF crit THEN "cpsid" ELSE "init"
  /\ ncalls' = ncalls + 1
  /\ op' = "posix_memalign"
  /\ UNCHANGED <<g_heap, memptr, ret, req, allocs, primask, nirq, hit>>
  /\ UNCHANGED <<memVars, rngVars>>

\* bm_disable_irq(): cpsid i
MainDisableIrq ==
  /\ ipc = "cpsid"
  /\ primask' = 1
  /\ ipc' = "init"
  /\ UNCHANGED <<allocVars, frame, nirq, hit, allCrit, memVars, rngVars>>

\* line 59: heap_init_once(); the value read may stay in a register
MainHeapInit ==
  /\ ipc = "init"
  /\ g_heap' = HeapInitOnce(g_heap)
  /\ frame' = [frame EXCEPT !.reg = HeapInitOnce(g_heap)]
  /\ ipc' = "check"
  /\ UNCHANGED <<memptr, ret, req, allocs, ncalls, op>>
  /\ UNCHANGED <<primask, nirq, hit, allCrit, memVars, rngVars>>

\* lines 61-63: the argument checks
MainCheck ==
  /\ ipc = "check"
  /\ IF frame.null \/ NotPowerOfTwoBits(Coerce(frame.alignment))
       THEN /\ ret' = [ret EXCEPT !["main"] = EINVAL]
            /\ ipc' = AfterReturn
            /\ frame' = [NoFrame EXCEPT !.crit = frame.crit]
       ELSE /\ frame' = [frame EXCEPT !.alignment = Coerce(frame.alignment)]
            /\ ipc' = "align"
            /\ ret' = ret
  /\ UNCHANGED <<g_heap, memptr, req, allocs, ncalls, op>>
  /\ UNCHANGED <<primask, nirq, hit, allCrit, memVars, rngVars>>

\* lines 65-71: p, newp and the comparison with &_estack.  g_heap is an
\* ordinary static: outside a critical section the compiler may use the
\* value line 59 left in a register instead of loading it again.
MainAlign ==
  /\ ipc = "align"
  /\ \E h \in {g_heap, frame.reg} :
       LET p    == AlignUp(h, frame.alignment)
           newp == NewP(p, frame.size)
       IN  IF AtOrBeyondStack(newp)
             THEN /\ memptr' = [memptr EXCEPT !["main"] = 0]
                  /\ ret' = [ret EXCEPT !["main"] = ENOMEM]
                  /\ ipc' = AfterReturn
                  /\ frame' = [NoFrame EXCEPT !.crit = frame.crit]
             ELSE /\ frame' = [frame EXCEPT !.p = p, !.newp = newp]
                  /\ ipc' = "store"
                  /\ UNCHANGED <<memptr, ret>>
  /\ UNCHANGED <<g_heap, req, allocs, ncalls, op>>
  /\ UNCHANGED <<primask, nirq, hit, allCrit, memVars, rngVars>>

\* lines 73-75: the write of the cursor, the output slot, return 0
MainStore ==
  /\ ipc = "store"
  /\ g_heap' = frame.newp
  /\ memptr' = [memptr EXCEPT !["main"] = frame.p]
  /\ ret' = [ret EXCEPT !["main"] = 0]
  /\ allocs' = Append(allocs,
                      Allocation("main", frame.p, frame.size, frame.alignment))
  /\ ipc' = AfterReturn
  /\ frame' = [NoFrame EXCEPT !.crit = frame.crit]
  /\ UNCHANGED <<req, ncalls, op>>
  /\ UNCHANGED <<primask, nirq, hit, allCrit, memVars, rngVars>>

\* bm_enable_irq(): cpsie i
MainEnableIrq ==
  /\ ipc = "cpsie"
  /\ primask' = 0
  /\ ipc' = "idle"
  /\ frame' = NoFrame
  /\ UNCHANGED <<allocVars, nirq, hit, allCrit, memVars, rngVars>>

\* the main context is inside posix_memalign, past its first read of g_heap
MainMidCall == ipc \in {"check", "align", "store"}

\* An interrupt is taken (PRIMASK clear) and its handler calls
\* bm_disable_irq(); posix_memalign(...); bm_enable_irq(); and returns.
IrqHandler ==
  /\ primask = 0
  /\ nirq < MaxIrqCalls
  /\ \E alignment \in IrqAlignments, size \in IrqSizes :
       /\ Call("irq", FALSE, alignment, size)
       /\ req' = [null |-> FALSE, alignment |-> alignment, size |-> size,
                  ptr |-> 0]
  /\ primask' = 0
  /\ nirq' = nirq + 1
  /\ ncalls' = ncalls + 1
  /\ hit' = (hit \/ MainMidCall)
  /\ UNCHANGED <<op, ipc, frame, allCrit, memVars, rngVars>>

NextIrq ==
  \/ MainEnter
  \/ MainDisableIrq
  \/ MainHeapInit
  \/ MainCheck
  \/ MainAlign
  \/ MainStore
  \/ MainEnableIrq
  \/ IrqHandler

(***************************************************************************)
(* Memory intrinsics, support.c:85-170.  Addresses are offsets into a RAM  *)
(* of MemSize bytes; every call is given buffers that lie inside it.       *)
(***************************************************************************)

\* the byte at address a
ByteAt(m, a) == m[a + 1]

\* m with byte v stored at address a
Store(m, a, v) == [m EXCEPT ![a + 1] = v]

\* (uint8_t)c
ToUint8(c) == c % 256

\* contents of the RAM before the first call
InitialMemories ==
  {[i \in 1..MemSize |-> i], [i \in 1..MemSize |-> 255 - (i % 2)]}

InitMem ==
  /\ mem \in InitialMemories
  /\ mem0 = mem
  /\ mcall = [entry |-> "none", fn |-> "none", dest |-> 0, src |-> 0, c |-> 0,
              n |-> 0, d |-> 0, s |-> 0, v |-> 0, cnt |-> 0, ret |-> 0]
  /\ mpc = "idle"
  /\ nmem = 0

\* values passed as the int c of memset
FillValues == {0, 171, 427}

\* the entry points support.c defines for the memory intrinsics
EntryPoints ==
  {"memset", "memcpy", "memmove",
   "__aeabi_memset", "__aeabi_memset4", "__aeabi_memset8",
   "__aeabi_memclr", "__aeabi_memclr4", "__aeabi_memclr8",
   "__aeabi_memcpy", "__aeabi_memcpy4", "__aeabi_memcpy8"}

CanCall == mpc \in {"idle", "done"} /\ nmem < MaxMemCalls

\* lines 86-88: memset(dest, c, n) entered through entry point entry
EnterMemset(entry, dest, c, n) ==
  /\ mcall' = [entry |-> entry, fn |-> "memset", dest |-> dest, src |-> 0,
               c |-> c, n |-> n, d |-> dest, s |-> 0, v |-> ToUint8(c),
               cnt |-> n, ret |-> 0]
  /\ mpc' = "set"
  /\ mem0' = mem
  /\ nmem' = nmem + 1
  /\ UNCHANGED <<mem, allocVars, irqVars, rngVars>>

\* lines 94-96: memcpy(dest, src, n) entered through entry point entry
EnterMemcpy(entry, dest, src, n) ==
  /\ mcall' = [entry |-> entry, fn |-> "memcpy", dest |-> dest, src |-> src,
               c |-> 0, n |-> n, d |-> dest, s |-> src, v |-> 0, cnt |-> n,
               ret |-> 0]
  /\ mpc' = "copy"
  /\ mem0' = mem
  /\ nmem' = nmem + 1
  /\ UNCHANGED <<mem, allocVars, irqVars, rngVars>>

\* the direction test with a slip: memmove always copies from the low end
CopiesForwardAlways(d, s) == TRUE

\* line 108: if (d < s)
CopiesForward(d, s) == d < s

\* lines 102-112: memmove up to its loops
Memmove ==
  /\ CanCall
  /\ \E n \in 0..MemSize :
       \E dest \in 0..(MemSize - n), src \in 0..(MemSize - n) :
         /\ IF dest = src \/ n = 0
              THEN /\ mpc' = "done"
                   /\ mcall' = [entry |-> "memmove", fn |-> "memmove",
                                dest |-> dest, src |-> src, c |-> 0,
                                n |-> n, d |-> dest, s |-> src, v |-> 0,
                                cnt |-> n, ret |-> dest]
              ELSE IF CopiesForward(dest, src)
                THEN /\ mpc' = "forward"
                     /\ mcall' = [entry |-> "memmove", fn |-> "memmove",
                                  dest |-> dest, src |-> src, c |-> 0,
                                  n |-> n, d |-> dest, s |-> src, v |-> 0,
                                  cnt |-> n, ret |-> 0]
                ELSE /\ mpc' = "backward"
                     /\ mcall' = [entry |-> "memmove", fn |-> "memmove",
                                  dest |-> dest, src |-> src, c |-> 0,
                                  n |-> n, d |-> dest + n, s |-> src + n,
                                  v |-> 0, cnt |-> n, ret |-> 0]
  /\ mem0' = mem
  /\ nmem' = nmem + 1
  /\ UNCHANGED <<mem, allocVars, irqVars, rngVars>>

Memset ==
  /\ CanCall
  /\ \E n \in 0..MemSize, c \in FillValues :
       \E dest \in 0..(MemSize - n) : EnterMemset("memset", dest, c, n)

Memcpy ==
  /\ CanCall
  /\ \E n \in 0..MemSize :
       \E dest \in 0..(MemSize - n), src \in 0..(MemSize - n) :
         EnterMemcpy("memcpy", dest, src, n)

\* lines 125-137: void __aeabi_memset*(void *dest, size_t n, int c)
\*   { (void)memset(dest, c, n); }
AeabiMemset ==
  /\ CanCall
  /\ \E n \in 0..MemSize, c \in FillValues :
       \E dest \in 0..(MemSize - n) :
         EnterMemset("__aeabi_memset", dest, c, n)

AeabiMemset4 ==
  /\ CanCall
  /\ \E n \in 0..MemSize, c \in FillValues :
       \E dest \in 0..(MemSize - n) :
         EnterMemset("__aeabi_memset4", dest, c, n)

AeabiMemset8 ==
  /\ CanCall
  /\ \E n \in 0..MemSize, c \in FillValues :
       \E dest \in 0..(MemSize - n) :
         EnterMemset("__aeabi_memset8", dest, c, n)

\* lines 141-153: void __aeabi_memclr*(void *dest, size_t n)
\*   { (void)memset(dest, 0, n); }
AeabiMemclr ==
  /\ CanCall
  /\ \E n \in 0..MemSize :
       \E dest \in 0..(MemSize - n) :
         EnterMemset("__aeabi_memclr", dest, 0, n)

AeabiMemclr4 ==
  /\ CanCall
  /\ \E n \in 0..MemSize :
       \E dest \in 0..(MemSize - n) :
         EnterMemset("__aeabi_memclr4", dest, 0, n)

AeabiMemclr8 ==
  /\ CanCall
  /\ \E n \in 0..MemSize :
       \E dest \in 0..(MemSize - n) :
         EnterMemset("__aeabi_memclr8", dest, 0, n)

\* lines 158-170: void __aeabi_memcpy*(void *dest, const void *src, size_t n)
\*   { (void)memcpy(dest, src, n); }
AeabiMemcpy ==
  /\ CanCall
  /\ \E n \in 0..MemSize :
       \E dest \in 0..(MemSize - n), src \in 0..(MemSize - n) :
         EnterMemcpy("__aeabi_memcpy", dest, src, n)

AeabiMemcpy4 ==
  /\ CanCall
  /\ \E n \in 0..MemSize :
       \E dest \in 0..(MemSize - n), src \in 0..(MemSize - n) :
         EnterMemcpy("__aeabi_memcpy4", dest, src, n)

AeabiMemcpy8 ==
  /\ CanCall
  /\ \E n \in 0..MemSize :
       \E dest \in 0..(MemSize - n), src \in 0..(MemSize - n) :
         EnterMemcpy("__aeabi_memcpy8", dest, src, n)

\* lines 89-90: while (n--) *p++ = v; return dest;
MemsetLoop ==
  /\ mpc = "set"
  /\ IF mcall.cnt = 0
       THEN /\ mpc' = "done"
            /\ mcall' = [mcall EXCEPT !.ret = mcall.dest]
            /\ mem' = mem
       ELSE /\ mem' = Store(mem, mcall.d, mcall.v)
            /\ mcall' = [mcall EXCEPT !.d = @ + 1, !.cnt = @ - 1]
            /\ mpc' = mpc
  /\ UNCHANGED <<mem0, nmem, allocVars, irqVars, rngVars>>

\* lines 97-98: while (n--) *d++ = *s++; return dest;
MemcpyLoop ==
  /\ mpc = "copy"
  /\ IF mcall.cnt = 0
       THEN /\ mpc' = "done"
            /\ mcall' = [mcall EXCEPT !.ret = mcall.dest]
            /\ mem' = mem
       ELSE /\ mem' = Store(mem, mcall.d, ByteAt(mem, mcall.s))
            /\ mcall' = [mcall EXCEPT !.d = @ + 1, !.s = @ + 1, !.cnt = @ - 1]
            /\ mpc' = mpc
  /\ UNCHANGED <<mem0, nmem, allocVars, irqVars, rngVars>>

\* line 109: while (n--) *d++ = *s++;   line 115: return dest;
MemmoveForward ==
  /\ mpc = "forward"
  /\ IF mcall.cnt = 0
       THEN /\ mpc' = "done"
            /\ mcall' = [mcall EXCEPT !.ret = mcall.dest]
            /\ mem' = mem
       ELSE /\ mem' = Store(mem, mcall.d, ByteAt(mem, mcall.s))
            /\ mcall' = [mcall EXCEPT !.d = @ + 1, !.s = @ + 1, !.cnt = @ - 1]
            /\ mpc' = mpc
  /\ UNCHANGED <<mem0, nmem, allocVars, irqVars, rngVars>>

\* line 113: while (n--) *--d = *--s;   line 115: return dest;
MemmoveBackward ==
  /\ mpc = "backward"
  /\ IF mcall.cnt = 0
       THEN /\ mpc' = "done"
            /\ mcall' = [mcall EXCEPT !.ret = mcall.dest]
            /\ mem' = mem
       ELSE /\ mem' = Store(mem, mcall.d - 1, ByteAt(mem, mcall.s - 1))
            /\ mcall' = [mcall EXCEPT !.d = @ - 1, !.s = @ - 1, !.cnt = @ - 1]
            /\ mpc' = mpc
  /\ UNCHANGED <<mem0, nmem, allocVars, irqVars, rngVars>>

NextMem ==
  \/ Memset
  \/ Memcpy
  \/ Memmove
  \/ AeabiMemset
  \/ AeabiMemset4
  \/ AeabiMemset8
  \/ AeabiMemclr
  \/ AeabiMemclr4
  \/ AeabiMemclr8
  \/ AeabiMemcpy
  \/ AeabiMemcpy4
  \/ AeabiMemcpy8
  \/ MemsetLoop
  \/ MemcpyLoop
  \/ MemmoveForward
  \/ MemmoveBackward

(***************************************************************************)
(* Entropy source, support.c:175-197.  A 32-bit word is the set of the     *)
(* positions (0 = least significant) of its 1 bits.                        *)
(***************************************************************************)

Bits32 == 0..31

\* static uint32_t g_rng = 0x12345678u;
Seed == 305419896
SeedBits == {i \in 0..30 : (Seed \div (2 ^ i)) % 2 = 1}

\* x ^ y
Xor(x, y) == (x \ y) \cup (y \ x)
\* x << k and x >> k on uint32_t
Shl(x, k) == {i + k : i \in x} \cap Bits32
Shr(x, k) == {i - k : i \in x} \cap Bits32

\* xorshift32 with a slip: the right shift is by 15
XorShift32Shr15(x) ==
  LET a == Xor(x, Shl(x, 13))
      b == Xor(a, Shr(a, 15))
  IN  Xor(b, Shl(b, 5))

\* lines 178-183: the word xorshift32() stores in g_rng and returns when
\* g_rng holds x
XorShift32(x) ==
  LET a == Xor(x, Shl(x, 13))
      b == Xor(a, Shr(a, 17))
  IN  Xor(b, Shl(b, 5))

\* (uint8_t)(r & 0xFF)
LowByte(r) ==
  LET bit(i) == IF i \in r THEN 2 ^ i ELSE 0
  IN  bit(0) + bit(1) + bit(2) + bit(3) + bit(4) + bit(5) + bit(6) + bit(7)

InitRng ==
  /\ g_rng = SeedBits
  /\ rcall = [n |-> 0, r |-> {}, i |-> 0]
  /\ rpc = "idle"
  /\ lens = <<>>
  /\ bufs = <<>>

\* line 187-188: arc4random_buf(buf, n) is entered
Arc4randomBuf ==
  /\ rpc \in {"idle", "done"}
  /\ Len(lens) < MaxRngCalls
  /\ \E n \in 0..MaxFill :
       /\ rcall' = [n |-> n, r |-> {}, i |-> 0]
       /\ lens' = Append(lens, n)
  /\ bufs' = Append(bufs, <<>>)
  /\ rpc' = "while"
  /\ UNCHANGED <<g_rng, allocVars, irqVars, memVars>>

\* lines 189-190: while (n) { uint32_t r = xorshift32();
RngWhile ==
  /\ rpc = "while"
  /\ IF rcall.n = 0
       THEN /\ rpc' = "done"
            /\ UNCHANGED <<g_rng, rcall>>
       ELSE /\ g_rng' = XorShift32(g_rng)
            /\ rcall' = [rcall EXCEPT !.r = XorShift32(g_rng), !.i = 0]
            /\ rpc' = "for"
  /\ UNCHANGED <<lens, bufs, allocVars, irqVars, memVars>>

\* lines 191-195: for (int i = 0; i < 4 && n; i++)
\*   { *p++ = (uint8_t)(r & 0xFF); r >>= 8; n--; }
RngFor ==
  /\ rpc = "for"
  /\ IF rcall.i < 4 /\ rcall.n # 0
       THEN /\ bufs' = [bufs EXCEPT ![Len(bufs)] = Append(@, LowByte(rcall.r))]
            /\ rcall' = [r |-> Shr(rcall.r, 8), n |-> rcall.n - 1,
                         i |-> rcall.i + 1]
            /\ rpc' = rpc
       ELSE /\ rpc' = "while"
            /\ UNCHANGED <<bufs, rcall>>
  /\ UNCHANGED <<g_rng, lens, allocVars, irqVars, memVars>>

NextRng == Arc4randomBuf \/ RngWhile \/ RngFor

Init ==
  /\ InitAlloc
  /\ InitIrq
  /\ InitMem
  /\ InitRng
  /\ mem = [i \in 1..MemSize |-> i]

InitAnyMemory == InitAlloc /\ InitIrq /\ InitMem /\ InitRng

SpecAlloc == Init /\ [][NextAlloc]_vars

SpecIrq == Init /\ [][NextIrq]_vars

SpecMem == InitAnyMemory /\ [][NextMem]_vars

SpecRng == Init /\ [][NextRng]_vars

(***************************************************************************)
(* Properties of the allocator under SpecAlloc                             *)
(***************************************************************************)

\* "n is a power of two", by definition rather than by the bit test
IsPowerOfTwo(n) == \E k \in 0..WordBits : n = 2 ^ k

\* the address ranges [p, p + size) of two allocations share an address
Overlap(a, b) ==
  /\ a.size > 0
  /\ b.size > 0
  /\ a.p < b.p + b.size
  /\ b.p < a.p + a.size

NoOverlap(as) ==
  \A i \in 1..Len(as) : \A j \in 1..Len(as) :
    i < j => ~Overlap(as[i], as[j])

\* the step was a call of posix_memalign
MemalignStep == ncalls' = ncalls + 1 /\ op' = "posix_memalign"

\* C1: the ranges [p, p+size) returned by the successful calls are pairwise
\* non-overlapping, and every returned address is a multiple of the
\* alignment (after coercion to at least the pointer size).
C1_DisjointAndAligned ==
  /\ NoOverlap(allocs)
  /\ \A i \in 1..Len(allocs) : allocs[i].p % allocs[i].alignment = 0

\* C2: once an allocation has succeeded the cursor lies between heap base
\* and stack top; no call moves the cursor to a lower address; free leaves
\* it unchanged; no later allocation returns an address inside a range
\* returned before.
C2_CursorMonotone ==
  [][ /\ (allocs' # <<>> => HeapBase <= g_heap' /\ g_heap' <= StackTop)
      /\ g_heap' >= g_heap
      /\ (op' = "free" => g_heap' = g_heap)
      /\ \A i \in 1..Len(allocs') : \A j \in 1..Len(allocs') :
           i < j => ~(allocs'[i].p <= allocs'[j].p
                      /\ allocs'[j].p < allocs'[i].p + allocs'[i].size)
    ]_vars

\* C3: a request with a valid alignment whose candidate end (the cursor
\* rounded up to the alignment, plus the size) is at or beyond stack top
\* returns ENOMEM, stores null in the output slot and leaves the cursor
\* unchanged, so that the same request with a smaller size that fits
\* succeeds next and returns the rounded address.
C3_ExhaustionFails ==
  [][ LET h == HeapInitOnce(g_heap)
          a == Coerce(req'.alignment)
          p == AlignUp(h, a)
      IN  ( /\ MemalignStep
            /\ ~req'.null
            /\ IsPowerOfTwo(a)
            /\ p + req'.size >= StackTop )
          => /\ ret'["main"] = ENOMEM
             /\ memptr'["main"] = 0
             /\ g_heap' = h
             /\ \A s \in 0..(req'.size - 1) :
                  p + s < StackTop =>
                    LET r == PosixMemalign(g_heap', 0, FALSE,
                                           req'.alignment, s)
                    IN  r.ret = 0 /\ r.slot = p
    ]_vars

\* C4 as stated: a call whose alignment argument is not a power of two
\* (alignment = 3, say) returns EINVAL, leaves the cursor unchanged and
\* does not write the output slot.
C4_AsStated ==
  [][ ( /\ MemalignStep
        /\ ~req'.null
        /\ ~IsPowerOfTwo(req'.alignment) )
      => /\ ret'["main"] = EINVAL
         /\ g_heap' = HeapInitOnce(g_heap)
         /\ memptr' = memptr
    ]_vars

\* C4 amended: a call whose alignment, once an alignment below the pointer
\* size has been raised to the pointer size, is not a power of two
\* (alignment = 6, say) returns EINVAL, does not write the output slot and
\* leaves the cursor unchanged, apart from the lazy initialisation of a
\* zero cursor to heap base.
C4_InvalidAlignment ==
  [][ ( /\ MemalignStep
        /\ ~req'.null
        /\ ~IsPowerOfTwo(Coerce(req'.alignment)) )
      => /\ ret'["main"] = EINVAL
         /\ g_heap' = HeapInitOnce(g_heap)
         /\ memptr' = memptr
    ]_vars

\* C4 witness: a call with alignment 6 was rejected after an earlier call
\* had succeeded, the slot still holding the earlier pointer.
C4_Witness ==
  /\ op = "posix_memalign"
  /\ req.alignment = 6
  /\ ~req.null
  /\ ret["main"] = EINVAL
  /\ allocs # <<>>
  /\ memptr["main"] = allocs[Len(allocs)].p
  /\ memptr["main"] # 0

\* rounding the cursor h up to alignment a does not exceed the word
RoundingFits(h, a) == h + (a - 1) < Mod

\* C5 as stated: a call with size 0 and a power-of-two alignment for which
\* rounding the cursor up does not overflow returns 0 and stores a
\* non-null pointer that is a multiple of the alignment.
C5_AsStated ==
  [][ ( /\ MemalignStep
        /\ ~req'.null
        /\ req'.size = 0
        /\ IsPowerOfTwo(req'.alignment)
        /\ RoundingFits(HeapInitOnce(g_heap), Coerce(req'.alignment)) )
      => /\ ret'["main"] = 0
         /\ memptr'["main"] # 0
         /\ memptr'["main"] % req'.alignment = 0
    ]_vars

\* the cursor h rounded up to a multiple of a, by division
RoundedUp(h, a) == ((h + a - 1) \div a) * a

\* C5 amended: such a call succeeds when, in addition, the rounded cursor
\* lies strictly below stack top, and then stores the rounded cursor, a
\* non-null multiple of the alignment; when the rounded cursor is at or
\* beyond stack top it returns ENOMEM and stores null.
C5_ZeroSizeSucceeds ==
  [][ ( /\ MemalignStep
        /\ ~req'.null
        /\ req'.size = 0
        /\ IsPowerOfTwo(req'.alignment)
        /\ RoundingFits(HeapInitOnce(g_heap), Coerce(req'.alignment)) )
      => IF RoundedUp(HeapInitOnce(g_heap), Coerce(req'.alignment))
              < StackTop
           THEN /\ ret'["main"] = 0
                /\ memptr'["main"] # 0
                /\ memptr'["main"] % req'.alignment = 0
                /\ memptr'["main"] % Coerce(req'.alignment) = 0
                /\ memptr'["main"]
                     = RoundedUp(HeapInitOnce(g_heap),
                                 Coerce(req'.alignment))
           ELSE /\ ret'["main"] = ENOMEM
                /\ memptr'["main"] = 0
    ]_vars

\* C5 witness: after an earlier allocation of 4 bytes, a call with size 0
\* and alignment 8 succeeded and returned a non-null multiple of 8.
C5_Witness ==
  /\ op = "posix_memalign"
  /\ req.size = 0
  /\ req.alignment = 8
  /\ ~req.null
  /\ ret["main"] = 0
  /\ Len(allocs) = 2
  /\ allocs[1].size = 4
  /\ memptr["main"] = allocs[2].p
  /\ memptr["main"] # 0
  /\ memptr["main"] % 8 = 0

(***************************************************************************)
(* Properties of the allocator under SpecIrq                               *)
(***************************************************************************)

\* no allocation's p + size exceeded the word
NoWrap(as) == \A i \in 1..Len(as) : as[i].p + as[i].size < Mod

\* C6: when every call is wrapped in bm_disable_irq() ... bm_enable_irq(),
\* the successful allocations of both contexts are pairwise non-overlapping
\* and no handler runs between a call's read and its write of the cursor.
C6_CriticalSectionSafe ==
  allCrit => NoOverlap(allocs) /\ ~hit

\* C10: without a critical section the handler can run between the main
\* call's read and write of g_heap and two successful allocations then
\* overlap (C10_Witness is such a state); and allocations whose arithmetic
\* stayed within the word overlap only in that way.
C10_OverlapOnlyByPreemption ==
  (NoWrap(allocs) /\ ~NoOverlap(allocs)) => (hit /\ ~allCrit)

\* C10 witness: the main call and the handler's call both succeeded with
\* the same address, the handler having run inside the main call.
C10_Witness ==
  /\ hit
  /\ ipc = "idle"
  /\ Len(allocs) = 2
  /\ NoWrap(allocs)
  /\ allocs[1].ctx = "irq"
  /\ allocs[2].ctx = "main"
  /\ ret["main"] = 0
  /\ ret["irq"] = 0
  /\ memptr["main"] = memptr["irq"]
  /\ Overlap(allocs[1], allocs[2])
  /\ g_heap < allocs[1].p + allocs[1].size + allocs[2].size

(***************************************************************************)
(* Properties of the memory intrinsics under SpecMem                       *)
(***************************************************************************)

\* C7: for all dest, src and n, overlapping or not, memmove leaves
\* dest[0..n) equal to what src[0..n) held before the call, changes no byte
\* outside dest[0..n) and returns dest.
C7_MemmoveCorrect ==
  (mpc = "done" /\ mcall.fn = "memmove") =>
    /\ \A i \in 0..(mcall.n - 1) :
         ByteAt(mem, mcall.dest + i) = ByteAt(mem0, mcall.src + i)
    /\ \A a \in 0..(MemSize - 1) :
         (a < mcall.dest \/ a >= mcall.dest + mcall.n) =>
           ByteAt(mem, a) = ByteAt(mem0, a)
    /\ mcall.ret = mcall.dest

\* C7 witness: a memmove of at least two bytes to a higher, overlapping
\* address has completed and changed the memory.
C7_Witness ==
  /\ mpc = "done"
  /\ mcall.fn = "memmove"
  /\ mcall.n >= 2
  /\ mcall.src < mcall.dest
  /\ mcall.dest < mcall.src + mcall.n
  /\ mem # mem0
  /\ ByteAt(mem, mcall.dest + mcall.n - 1)
       = ByteAt(mem0, mcall.src + mcall.n - 1)

\* the entry points C8 requires for each operation: the bare name, the
\* __aeabi_ name and its 4 and 8 variants, and the memclr family for set
RequiredEntryPoints(fn) ==
  IF fn = "memset"
    THEN {"memset", "__aeabi_memset", "__aeabi_memset4", "__aeabi_memset8",
          "__aeabi_memclr", "__aeabi_memclr4", "__aeabi_memclr8"}
  ELSE IF fn = "memcpy"
    THEN {"memcpy", "__aeabi_memcpy", "__aeabi_memcpy4", "__aeabi_memcpy8"}
  ELSE {"memmove", "__aeabi_memmove", "__aeabi_memmove4", "__aeabi_memmove8"}

\* m with v written to dest[0..n) and nothing else
SetResult(m, dest, v, n) ==
  [i \in 1..MemSize |-> IF dest < i /\ i <= dest + n THEN v ELSE m[i]]

\* m after n bytes were copied from s to d, lowest address first
RECURSIVE CopyResult(_, _, _, _)
CopyResult(m, d, s, n) ==
  IF n = 0 THEN m
  ELSE CopyResult(Store(m, d, ByteAt(m, s)), d + 1, s + 1, n - 1)

\* a completed call through any entry point of set or copy left the memory
\* as the canonical operation leaves it
EntryPointsAgree ==
  mpc = "done" =>
    /\ mcall.fn = "memset" =>
         /\ mem = SetResult(mem0, mcall.dest, mcall.c % 256, mcall.n)
         /\ mcall.entry \in {"__aeabi_memclr", "__aeabi_memclr4",
                              "__aeabi_memclr8"} => mcall.c = 0
    /\ mcall.fn = "memcpy" =>
         mem = CopyResult(mem0, mcall.dest, mcall.src, mcall.n)

\* C8: each of set, copy and move is exported under its bare name and its
\* alternate entry points, and a call through any of them leaves the
\* memory as the canonical operation does.
C8_AllEntryPoints ==
  /\ mpc = "done" => RequiredEntryPoints(mcall.fn) \subseteq EntryPoints
  /\ EntryPointsAgree

(***************************************************************************)
(* Properties of the entropy source under SpecRng                          *)
(***************************************************************************)

\* one xorshift step, bit by bit: bit i of x ^ (x << 13) is
\* x[i] # x[i - 13], and so on
StepBits(x) ==
  LET a == {i \in Bits32 : (i \in x) # (i >= 13 /\ (i - 13) \in x)}
      b == {i \in Bits32 : (i \in a) # (i + 17 <= 31 /\ (i + 17) \in a)}
  IN  {i \in Bits32 : (i \in b) # (i >= 5 /\ (i - 5) \in b)}

\* the k-th iterate of the step from the reset state
RECURSIVE Iterate(_)
Iterate(k) == IF k = 0 THEN SeedBits ELSE StepBits(Iterate(k - 1))

\* bits 8*j .. 8*j+7 of word w, as a number
ByteOfWord(w, j) ==
  LET bit(b) == IF (8 * j + b) \in w THEN 2 ^ b ELSE 0
  IN  bit(0) + bit(1) + bit(2) + bit(3) + bit(4) + bit(5) + bit(6) + bit(7)

\* words drawn by the calls before call c
RECURSIVE WordsBefore(_)
WordsBefore(c) ==
  IF c = 1 THEN 0 ELSE WordsBefore(c - 1) + ((lens[c - 1] + 3) \div 4)

\* byte i (from 0) of the output of call c
ExpectedByte(c, i) ==
  ByteOfWord(Iterate(WordsBefore(c) + (i \div 4) + 1), i % 4)

\* C9: from the reset state, a call writes exactly n bytes, byte i being
\* bits 8*(i mod 4) .. 8*(i mod 4)+7 of the (i div 4 + 1)-th iterate of the
\* xorshift step, a final partial word truncated; each later call goes on
\* from the next iterate, so the output is a function of the sequence of
\* requested lengths alone.
C9_OutputDetermined ==
  \A c \in 1..Len(bufs) :
    /\ Len(bufs[c]) <= lens[c]
    /\ (c < Len(bufs) \/ rpc = "done") => Len(bufs[c]) = lens[c]
    /\ \A i \in 0..(Len(bufs[c]) - 1) : bufs[c][i + 1] = ExpectedByte(c, i)

\* C9 witness: a first call of 6 bytes (one word and a truncated one) and a
\* second call of 5 bytes have completed.
C9_Witness ==
  /\ rpc = "done"
  /\ lens = <<6, 5>>
  /\ Len(bufs[1]) = 6
  /\ Len(bufs[2]) = 5
  /\ bufs[1][5] = ByteOfWord(Iterate(2), 0)
  /\ bufs[2][1] = ByteOfWord(Iterate(3), 0)

====
